---- MODULE Spec2Model ----
(***************************************************************************)
(* A model of train_snn_mixer.py: Trainer.main's setup, resume, epoch loop *)
(* and checkpointing, Trainer.train_one_epoch, Trainer.evaluate and the    *)
(* learning-rate schedule built by Trainer.set_lr_scheduler.               *)
(*                                                                         *)
(* One run is a set of processes (ranks 0..world-1), each executing        *)
(* Trainer.main.  A chain of runs shares one run directory on disk: a run  *)
(* may be killed at any point (Abort) and a later run started (StartRun),  *)
(* fresh or with --resume latest.                                          *)
(*                                                                         *)
(* Learning rates are integers: args.lr is BaseLr units, and factors are   *)
(* in thousandths.                                                         *)
(***************************************************************************)
EXTENDS Integers, Sequences, FiniteSets, TLC

\* ------------------------------------------------------------------ bounds
MaxEpochs == 3       \* largest args.epochs drawn
MaxWarmup == 3       \* largest args.lr_warmup_epochs drawn
NumBatches == 2      \* len(data_loader), for the train and the test loader
MaxRuns == 2         \* runs in one chain
MaxWorld == 2        \* largest world size drawn

\* test_acc1 values an evaluation pass may return
TestAccs == 0..2

\* ------------------------------------------------------- program constants
BaseLr == 1000           \* --lr, in model units
WarmupDecay == 10        \* --lr-warmup-decay 0.01, in thousandths
LrGamma == 100           \* --lr-gamma 0.1, in thousandths
LrStepSize == 30         \* --lr-step-size
StartEpochDefault == 0   \* --start-epoch

\* ------------------------------------------------------------------ strings
\* A string is the tuple of its character codes, so that str.lower() is computed.
s_sgd == <<115, 103, 100>>
s_SGD == <<83, 71, 68>>
s_adamw == <<97, 100, 97, 109, 119>>
s_AdamW == <<65, 100, 97, 109, 87>>
s_adam == <<97, 100, 97, 109>>
s_step == <<115, 116, 101, 112>>
s_cosa == <<99, 111, 115, 97>>
s_CosA == <<67, 111, 115, 65>>
s_exp == <<101, 120, 112>>
s_poly == <<112, 111, 108, 121>>
s_linear == <<108, 105, 110, 101, 97, 114>>
s_constant == <<99, 111, 110, 115, 116, 97, 110, 116>>
s_Linear == <<76, 105, 110, 101, 97, 114>>

lower(s) == [i \in 1..Len(s) |-> IF s[i] \in 65..90 THEN s[i] + 32 ELSE s[i]]

OptNames == {s_sgd, s_SGD, s_AdamW, s_adam}
SchedNames == {s_step, s_cosa, s_CosA, s_exp, s_poly}
WarmupMethods == {s_linear, s_constant, s_Linear}

Min(a, b) == IF a < b THEN a ELSE b
Max(a, b) == IF a > b THEN a ELSE b

Ranks == 0..(MaxWorld - 1)

VARIABLES
    cfg,      \* the command line shared by the runs of a chain
    args,     \* the current run: its number, --resume and --amp
    disk,     \* the run directory; writers: history, <<file, rank>> of every write
    proc,     \* per rank: the locals of Trainer.main and its position
    reduced,  \* the value the last evaluation's cross-process reduction produced
    written   \* history: what each completed write of checkpoint_latest.pth stored

vars == <<cfg, args, disk, proc, reduced, written>>

\* ------------------------------------------------------------------- files
\* A file of the run directory: absent, torn (a write was cut short: the file
\* is overwritten in place) or complete.  at: history, the writer's progress
\* when the write began.
NoData == [epoch |-> -1]
NoProg == [train_started |-> 0, train_done |-> 0, steps |-> 0,
           eval_started |-> 0, eval_done |-> 0]
NoFile == [state |-> "none", data |-> NoData, at |-> NoProg]
Complete(f) == f.state = "ok"

\* ----------------------------------------------------- learning-rate schedule
\* A cosine schedule spread over all of args.epochs.
T_max_all_epochs == cfg.epochs

\* args.epochs - args.lr_warmup_epochs, the cosine schedule's T_max
T_max == cfg.epochs - cfg.lr_warmup_epochs

RECURSIVE GammaPow(_)
GammaPow(k) == IF k <= 0 THEN 1000 ELSE (GammaPow(k - 1) * LrGamma) \div 1000

\* StepLR(step_size, gamma) after t steps
StepLR(t) == (BaseLr * GammaPow(t \div LrStepSize)) \div 1000

\* ExponentialLR(gamma) after t steps
ExponentialLR(t) == (BaseLr * GammaPow(t)) \div 1000

\* (1 + cos(pi * t / T)) / 2 in thousandths, 0 <= t <= T, by Bhaskara's rational
\* approximation of the cosine: exact at t = 0, t = T / 2 and t = T.
CosFactor(t, T) ==
    IF 2 * t <= T
    THEN 500 + (500 * (T * T - 4 * t * t)) \div (T * T + t * t)
    ELSE LET u == T - t
         IN  500 - (500 * (T * T - 4 * u * u)) \div (T * T + u * u)

\* CosineAnnealingLR(T_max, eta_min = 0) after t steps
CosineAnnealingLR(t) == (BaseLr * CosFactor(t, T_max)) \div 1000

\* LinearLR(start_factor = lr_warmup_decay, total_iters = lr_warmup_epochs)
LinearLR(t) ==
    LET n == cfg.lr_warmup_epochs
    IN  (BaseLr * (WarmupDecay + ((1000 - WarmupDecay) * Min(t, n)) \div n)) \div 1000

\* ConstantLR(factor = lr_warmup_decay, total_iters = lr_warmup_epochs)
ConstantLR(t) ==
    IF t < cfg.lr_warmup_epochs THEN (BaseLr * WarmupDecay) \div 1000 ELSE BaseLr

main_lr_scheduler(t) ==
    CASE lower(cfg.lr_scheduler) = s_step -> StepLR(t)
      [] lower(cfg.lr_scheduler) = s_cosa -> CosineAnnealingLR(t)
      [] OTHER -> ExponentialLR(t)

warmup_lr_scheduler(t) ==
    IF cfg.lr_warmup_method = s_linear THEN LinearLR(t) ELSE ConstantLR(t)

\* The cosine schedule divides by T_max
MainRaises == lower(cfg.lr_scheduler) = s_cosa /\ T_max = 0

NewScheduler(seq) == [seq |-> seq, last_epoch |-> 0, warm |-> 0, main |-> 0]

\* SequentialLR(schedulers = [warmup, main], milestones = [lr_warmup_epochs]).step(),
\* or the main schedule's own step() when there is no warmup:
\* [ok, lr_scheduler, lr], ok FALSE when the step raises.
SequentialStep(s) ==
    LET e == s.last_epoch + 1
    IN  IF s.seq /\ e < cfg.lr_warmup_epochs
        THEN [ok |-> TRUE,
              lr_scheduler |-> [s EXCEPT !.last_epoch = e, !.warm = s.warm + 1],
              lr |-> warmup_lr_scheduler(s.warm + 1)]
        ELSE IF MainRaises
        THEN [ok |-> FALSE, lr_scheduler |-> s, lr |-> 0]
        ELSE IF s.seq /\ e = cfg.lr_warmup_epochs
        THEN [ok |-> TRUE,
              lr_scheduler |-> [s EXCEPT !.last_epoch = e, !.main = 0],
              lr |-> main_lr_scheduler(0)]
        ELSE [ok |-> TRUE,
              lr_scheduler |-> [s EXCEPT !.last_epoch = e, !.main = s.main + 1],
              lr |-> main_lr_scheduler(s.main + 1)]

\* ---------------------------------------------------------------- processes
Procs == 0..(cfg.world - 1)

\* utils.is_main_process(): the coordinating process is rank 0
is_main_process(p) == p = 0

InitProc(on) ==
    [pc |-> IF on THEN "set_optimizer" ELSE "off",
     start_epoch |-> StartEpochDefault,
     epoch |-> 0, batch |-> 0,
     max_test_acc1 |-> -1, test_acc1 |-> -1, save_max_test_acc1 |-> FALSE,
     lr_scheduler |-> NewScheduler(FALSE), lr |-> BaseLr,
     model |-> 0,          \* parameters: the optimizer steps applied to them
     state |-> FALSE,      \* the spiking layers hold temporal state
     scaler |-> {},        \* {} is None, {n} a GradScaler after n updates
     coll |-> 0,           \* collectives entered
     \* history
     prev_max |-> -1, stepped |-> FALSE, leaked |-> FALSE, unstepped_reset |-> FALSE,
     sampler_epoch |-> -1,
     trace |-> <<>>, prog |-> NoProg, err |-> "none"]

Terminal == {"off", "done", "failed", "aborted"}

\* A collective completes for p once every process of the run has entered it.
Arrived(p) == \A q \in Procs : proc[q].coll >= proc[p].coll

Raise(p, e) == proc' = [proc EXCEPT ![p].pc = "failed", ![p].err = e]

Configs ==
    [epochs : 1..MaxEpochs, opt : OptNames, lr_scheduler : SchedNames,
     lr_warmup_epochs : 0..MaxWarmup, lr_warmup_method : WarmupMethods,
     world : 1..MaxWorld]

FirstArgs == [no : {1}, resume : {"none"}, amp : BOOLEAN]

InitWith(cs) ==
    /\ cfg \in cs
    /\ args \in FirstArgs
    /\ disk = [output_dir |-> FALSE, dirs |-> FALSE, args_txt |-> 0,
               latest |-> NoFile, best |-> NoFile, tb |-> {},
               writers |-> {}]
    /\ proc = [p \in Ranks |-> InitProc(p < cfg.world)]
    /\ reduced = [run |-> 0, epoch |-> -1, acc |-> -1]
    /\ written = <<>>

\* ------------------------------------------------------------ Trainer.main
\* A set_optimizer whose else branch does not raise.
set_optimizer_no_raise(p) ==
    /\ proc[p].pc = "set_optimizer"
    /\ disk' = [disk EXCEPT !.output_dir = TRUE]
    /\ proc' = [proc EXCEPT ![p].pc = "set_lr_scheduler",
                            ![p].scaler = IF args.amp THEN {0} ELSE {}]
    /\ UNCHANGED <<cfg, args, reduced, written>>

\* lines 44-90: output directory, data, model, optimizer, scaler
set_optimizer(p) ==
    /\ proc[p].pc = "set_optimizer"
    /\ disk' = [disk EXCEPT !.output_dir = TRUE]
    /\ IF lower(cfg.opt) \notin {s_sgd, s_adamw}
       THEN Raise(p, "NotImplementedError")
       ELSE proc' = [proc EXCEPT ![p].pc = "set_lr_scheduler",
                                 ![p].scaler = IF args.amp THEN {0} ELSE {}]
    /\ UNCHANGED <<cfg, args, reduced, written>>

\* lines 92, 301-344
set_lr_scheduler(p) ==
    /\ proc[p].pc = "set_lr_scheduler"
    /\ IF lower(cfg.lr_scheduler) \notin {s_step, s_cosa, s_exp}
       THEN Raise(p, "NotImplementedError")
       ELSE IF cfg.lr_warmup_epochs > 0
       THEN IF cfg.lr_warmup_method \notin {s_linear, s_constant}
            THEN Raise(p, "NotImplementedError")
            ELSE proc' = [proc EXCEPT ![p].pc = "makedirs",
                                      ![p].lr_scheduler = NewScheduler(TRUE),
                                      ![p].lr = warmup_lr_scheduler(0)]
       ELSE proc' = [proc EXCEPT ![p].pc = "makedirs",
                                 ![p].lr_scheduler = NewScheduler(FALSE),
                                 ![p].lr = main_lr_scheduler(0)]
    /\ UNCHANGED <<cfg, args, disk, reduced, written>>

\* lines 94-106: the run directory's tb/ and pt/
makedirs(p) ==
    /\ proc[p].pc = "makedirs"
    /\ IF ~is_main_process(p)
       THEN /\ proc' = [proc EXCEPT ![p].pc = "resume"]
            /\ UNCHANGED disk
       ELSE IF disk.dirs /\ args.resume = "none"
       THEN /\ Raise(p, "FileExistsError")
            /\ UNCHANGED disk
       ELSE /\ proc' = [proc EXCEPT ![p].pc = "resume"]
            /\ disk' = [disk EXCEPT !.dirs = TRUE,
                                    !.writers = @ \cup {<<"dirs", p>>}]
    /\ UNCHANGED <<cfg, args, reduced, written>>

\* A resume that starts again at the restored epoch.
ResumeEpoch_repeat(checkpoint) == checkpoint.epoch

\* line 117: args.start_epoch = checkpoint['epoch'] + 1
ResumeEpoch(checkpoint) == checkpoint.epoch + 1

\* lines 108-122
resume(p) ==
    /\ proc[p].pc = "resume"
    /\ IF args.resume = "none"
       THEN proc' = [proc EXCEPT ![p].pc = "open_writer",
                                 ![p].max_test_acc1 = -1,
                                 ![p].epoch = proc[p].start_epoch,
                                 ![p].prog = [k \in DOMAIN NoProg |-> proc[p].start_epoch]]
       ELSE IF disk.latest.state = "none" THEN Raise(p, "FileNotFoundError")
       ELSE IF disk.latest.state = "torn" THEN Raise(p, "UnpicklingError")
       ELSE LET checkpoint == disk.latest.data
            IN  IF proc[p].scaler # {} /\ "scaler" \notin DOMAIN checkpoint
                THEN Raise(p, "KeyError")
                ELSE proc' = [proc EXCEPT
                        ![p].pc = "open_writer",
                        ![p].model = checkpoint.model,
                        ![p].lr = checkpoint.optimizer.lr,
                        ![p].lr_scheduler = checkpoint.lr_scheduler,
                        ![p].start_epoch = ResumeEpoch(checkpoint),
                        ![p].epoch = ResumeEpoch(checkpoint),
                        ![p].prog = [k \in DOMAIN NoProg |-> ResumeEpoch(checkpoint)],
                        ![p].scaler = IF proc[p].scaler # {} THEN {checkpoint.scaler}
                                      ELSE {},
                        ![p].max_test_acc1 = IF is_main_process(p)
                                             THEN checkpoint.max_test_acc1 ELSE -1]
    /\ UNCHANGED <<cfg, args, disk, reduced, written>>

\* lines 124-129: SummaryWriter(purge_step = start_epoch), args.txt
open_writer(p) ==
    /\ proc[p].pc = "open_writer"
    /\ proc' = [proc EXCEPT ![p].pc = "loop"]
    /\ IF is_main_process(p)
       THEN disk' = [disk EXCEPT !.args_txt = args.no,
                                 !.tb = {e \in disk.tb : e[2] < proc[p].start_epoch},
                                 !.writers = @ \cup {<<"args.txt", p>>, <<"tb", p>>}]
       ELSE UNCHANGED disk
    /\ UNCHANGED <<cfg, args, reduced, written>>

\* args.distributed, as utils.init_distributed_mode sets it
distributed == cfg.world > 1

Did(p, step) == Append(proc[p].trace, step)

\* line 131: for epoch in range(args.start_epoch, args.epochs)
loop_head(p) ==
    /\ proc[p].pc = "loop"
    /\ IF proc[p].epoch < cfg.epochs
       THEN proc' = [proc EXCEPT ![p].pc = "set_epoch", ![p].trace = <<>>]
       ELSE proc' = [proc EXCEPT ![p].pc = "done"]
    /\ UNCHANGED <<cfg, args, disk, reduced, written>>

\* lines 132-134
set_epoch(p) ==
    /\ proc[p].pc = "set_epoch"
    /\ IF distributed
       THEN proc' = [proc EXCEPT ![p].pc = "train_one_epoch",
                                 ![p].sampler_epoch = proc[p].epoch,
                                 ![p].trace = Did(p, "set_epoch")]
       ELSE proc' = [proc EXCEPT ![p].pc = "train_one_epoch"]
    /\ UNCHANGED <<cfg, args, disk, reduced, written>>

\* ------------------------------------------------- Trainer.train_one_epoch
\* lines 136, 172-177
train_one_epoch(p) ==
    /\ proc[p].pc = "train_one_epoch"
    /\ proc' = [proc EXCEPT ![p].pc = "train", ![p].batch = 0,
                            ![p].prog.train_started = @ + 1]
    /\ UNCHANGED <<cfg, args, disk, reduced, written>>

\* lines 178-184: the next batch's forward pass
train_forward(p) ==
    /\ proc[p].pc = "train"
    /\ proc[p].batch < NumBatches
    /\ proc' = [proc EXCEPT ![p].pc = "backward",
                            ![p].state = TRUE,
                            ![p].stepped = FALSE,
                            ![p].leaked = @ \/ proc[p].state,
                            ![p].coll = @ + 1]
    /\ UNCHANGED <<cfg, args, disk, reduced, written>>

\* lines 186-198: backward (the gradients' all-reduce is a collective), clipping,
\* optimizer step, scaler update
train_backward_step(p) ==
    /\ proc[p].pc = "backward"
    /\ Arrived(p)
    /\ proc' = [proc EXCEPT ![p].pc = "reset_net",
                            ![p].model = @ + 1,
                            ![p].stepped = TRUE,
                            ![p].scaler = {n + 1 : n \in @}]
    /\ UNCHANGED <<cfg, args, disk, reduced, written>>

\* lines 199-206: functional.reset_net(model), metrics
train_reset_net(p) ==
    /\ proc[p].pc = "reset_net"
    /\ proc' = [proc EXCEPT ![p].pc = "train",
                            ![p].state = FALSE,
                            ![p].unstepped_reset = @ \/ ~proc[p].stepped,
                            ![p].batch = @ + 1]
    /\ UNCHANGED <<cfg, args, disk, reduced, written>>

\* line 208: metric_logger.synchronize_between_processes(), entered
train_end(p) ==
    /\ proc[p].pc = "train"
    /\ proc[p].batch >= NumBatches
    /\ proc' = [proc EXCEPT ![p].pc = "train_sync", ![p].coll = @ + 1]
    /\ UNCHANGED <<cfg, args, disk, reduced, written>>

\* lines 208-211: the synchronisation completes and the pass returns
train_return(p) ==
    /\ proc[p].pc = "train_sync"
    /\ Arrived(p)
    /\ proc' = [proc EXCEPT ![p].pc = "tb_train",
                            ![p].prog.train_done = @ + 1,
                            ![p].trace = Did(p, "train")]
    /\ UNCHANGED <<cfg, args, disk, reduced, written>>

\* A loop that goes from the training pass to the evaluation pass without
\* stepping the schedule.
tb_train_no_lr_step(p) ==
    /\ proc[p].pc = "tb_train"
    /\ IF p = 0
       THEN /\ proc' = [proc EXCEPT ![p].pc = "evaluate",
                                    ![p].trace = Append(proc[p].trace, "log_train")]
            /\ disk' = [disk EXCEPT !.tb = @ \cup {<<"train", proc[p].epoch>>},
                                    !.writers = @ \cup {<<"tb", p>>}]
       ELSE /\ proc' = [proc EXCEPT ![p].pc = "evaluate"]
            /\ UNCHANGED disk
    /\ UNCHANGED <<cfg, args, reduced, written>>

\* lines 137-140
tb_train(p) ==
    /\ proc[p].pc = "tb_train"
    /\ IF is_main_process(p)
       THEN /\ proc' = [proc EXCEPT ![p].pc = "lr_step",
                                    ![p].trace = Did(p, "log_train")]
            /\ disk' = [disk EXCEPT !.tb = @ \cup {<<"train", proc[p].epoch>>},
                                    !.writers = @ \cup {<<"tb", p>>}]
       ELSE /\ proc' = [proc EXCEPT ![p].pc = "lr_step"]
            /\ UNCHANGED disk
    /\ UNCHANGED <<cfg, args, reduced, written>>

\* line 142: lr_scheduler.step()
lr_scheduler_step(p) ==
    /\ proc[p].pc = "lr_step"
    /\ LET r == SequentialStep(proc[p].lr_scheduler)
       IN  IF r.ok
           THEN proc' = [proc EXCEPT ![p].pc = "evaluate",
                                     ![p].lr_scheduler = r.lr_scheduler,
                                     ![p].lr = r.lr,
                                     ![p].prog.steps = @ + 1,
                                     ![p].trace = Did(p, "lr_step")]
           ELSE Raise(p, "ZeroDivisionError")
    /\ UNCHANGED <<cfg, args, disk, reduced, written>>

\* ------------------------------------------------------- Trainer.evaluate
\* lines 143, 214-219
evaluate(p) ==
    /\ proc[p].pc = "evaluate"
    /\ proc' = [proc EXCEPT ![p].pc = "eval", ![p].batch = 0,
                            ![p].prog.eval_started = @ + 1]
    /\ UNCHANGED <<cfg, args, disk, reduced, written>>

\* lines 221-226: the next batch's forward pass
eval_forward(p) ==
    /\ proc[p].pc = "eval"
    /\ proc[p].batch < NumBatches
    /\ proc' = [proc EXCEPT ![p].pc = "eval_reset_net",
                            ![p].state = TRUE,
                            ![p].leaked = @ \/ proc[p].state]
    /\ UNCHANGED <<cfg, args, disk, reduced, written>>

\* An evaluation loop that does not reset the network.
eval_no_reset_net(p) ==
    /\ proc[p].pc = "eval_reset_net"
    /\ proc' = [proc EXCEPT ![p].pc = "eval", ![p].batch = @ + 1]
    /\ UNCHANGED <<cfg, args, disk, reduced, written>>

\* lines 228-235: metrics, functional.reset_net(model)
eval_reset_net(p) ==
    /\ proc[p].pc = "eval_reset_net"
    /\ proc' = [proc EXCEPT ![p].pc = "eval",
                            ![p].state = FALSE,
                            ![p].batch = @ + 1]
    /\ UNCHANGED <<cfg, args, disk, reduced, written>>

\* line 237: utils.reduce_across_processes, entered
eval_end(p) ==
    /\ proc[p].pc = "eval"
    /\ proc[p].batch >= NumBatches
    /\ proc' = [proc EXCEPT ![p].pc = "eval_sync", ![p].coll = @ + 1]
    /\ UNCHANGED <<cfg, args, disk, reduced, written>>

\* lines 237-254: the reduction completes; every process reads the same
\* global averages
eval_return(p) ==
    /\ proc[p].pc = "eval_sync"
    /\ Arrived(p)
    /\ \E acc \in TestAccs :
         /\ IF ~distributed
            THEN UNCHANGED reduced
            ELSE IF reduced.run = args.no /\ reduced.epoch = proc[p].epoch
            THEN acc = reduced.acc /\ UNCHANGED reduced
            ELSE reduced' = [run |-> args.no, epoch |-> proc[p].epoch, acc |-> acc]
         /\ proc' = [proc EXCEPT ![p].pc = "tb_test",
                                 ![p].test_acc1 = acc,
                                 ![p].prog.eval_done = @ + 1,
                                 ![p].trace = Did(p, "evaluate")]
    /\ UNCHANGED <<cfg, args, disk, written>>

\* Test scalars logged by every process.
tb_test_unguarded(p) ==
    /\ proc[p].pc = "tb_test"
    /\ proc' = [proc EXCEPT ![p].pc = "update_max",
                            ![p].trace = Append(proc[p].trace, "log_test")]
    /\ disk' = [disk EXCEPT !.tb = @ \cup {<<"test", proc[p].epoch>>},
                            !.writers = @ \cup {<<"tb", p>>}]
    /\ UNCHANGED <<cfg, args, reduced, written>>

\* lines 144-147
tb_test(p) ==
    /\ proc[p].pc = "tb_test"
    /\ IF is_main_process(p)
       THEN /\ proc' = [proc EXCEPT ![p].pc = "update_max",
                                    ![p].trace = Did(p, "log_test")]
            /\ disk' = [disk EXCEPT !.tb = @ \cup {<<"test", proc[p].epoch>>},
                                    !.writers = @ \cup {<<"tb", p>>}]
       ELSE /\ proc' = [proc EXCEPT ![p].pc = "update_max"]
            /\ UNCHANGED disk
    /\ UNCHANGED <<cfg, args, reduced, written>>

\* ------------------------------------------------ Trainer.main, lines 149-169
\* A comparison that also takes an equal accuracy for an improvement.
Improved_ge(acc, best) == acc >= best

\* test_acc1 > max_test_acc1
Improved(acc, best) == acc > best

\* lines 149-153; the processes other than the coordinator skip lines 149-166
update_max_test_acc1(p) ==
    /\ proc[p].pc = "update_max"
    /\ IF is_main_process(p)
       THEN IF Improved(proc[p].test_acc1, proc[p].max_test_acc1)
            THEN proc' = [proc EXCEPT ![p].pc = "save_latest",
                                      ![p].prev_max = proc[p].max_test_acc1,
                                      ![p].max_test_acc1 = proc[p].test_acc1,
                                      ![p].save_max_test_acc1 = TRUE,
                                      ![p].trace = Did(p, "update_max")]
            ELSE proc' = [proc EXCEPT ![p].pc = "save_latest",
                                      ![p].prev_max = proc[p].max_test_acc1,
                                      ![p].save_max_test_acc1 = FALSE,
                                      ![p].trace = Did(p, "update_max")]
       ELSE proc' = [proc EXCEPT ![p].pc = "print_eta"]
    /\ UNCHANGED <<cfg, args, disk, reduced, written>>

\* A checkpoint that stores the epoch about to start.
CheckpointEpoch_next(p) == proc[p].epoch + 1

\* A checkpoint dictionary that never stores the scaler.
Checkpoint_noscaler(p) ==
    [model |-> proc[p].model,
     optimizer |-> [lr |-> proc[p].lr],
     lr_scheduler |-> proc[p].lr_scheduler,
     epoch |-> proc[p].epoch,
     args |-> args,
     max_test_acc1 |-> proc[p].max_test_acc1]

\* lines 154-163: the checkpoint dictionary
CheckpointEpoch(p) == proc[p].epoch

Checkpoint(p) ==
    LET base == [model |-> proc[p].model,
                 optimizer |-> [lr |-> proc[p].lr],
                 lr_scheduler |-> proc[p].lr_scheduler,
                 epoch |-> CheckpointEpoch(p),
                 args |-> args,
                 max_test_acc1 |-> proc[p].max_test_acc1]
    IN  IF proc[p].scaler # {}
        THEN base @@ [scaler |-> CHOOSE n \in proc[p].scaler : TRUE]
        ELSE base

\* line 164: utils.save_on_master opens checkpoint_latest.pth for writing
save_latest(p) ==
    /\ proc[p].pc = "save_latest"
    /\ proc' = [proc EXCEPT ![p].pc = "save_latest_w"]
    /\ IF is_main_process(p)
       THEN disk' = [disk EXCEPT
                        !.latest = [state |-> "torn", data |-> NoData,
                                    at |-> proc[p].prog],
                        !.writers = @ \cup {<<"latest", p>>}]
       ELSE UNCHANGED disk
    /\ UNCHANGED <<cfg, args, reduced, written>>

\* line 164: the write completes
save_latest_done(p) ==
    /\ proc[p].pc = "save_latest_w"
    /\ proc' = [proc EXCEPT ![p].pc = "save_best",
                            ![p].trace = Did(p, "save_latest")]
    /\ IF is_main_process(p)
       THEN /\ disk' = [disk EXCEPT !.latest.state = "ok",
                                    !.latest.data = Checkpoint(p)]
            /\ written' = Append(written, [epoch |-> CheckpointEpoch(p),
                                           acc |-> proc[p].test_acc1,
                                           run |-> args.no])
       ELSE UNCHANGED <<disk, written>>
    /\ UNCHANGED <<cfg, args, reduced>>

\* lines 165-166: checkpoint_max_test_acc1.pth is opened for writing, or skipped
save_best(p) ==
    /\ proc[p].pc = "save_best"
    /\ IF proc[p].save_max_test_acc1
       THEN /\ proc' = [proc EXCEPT ![p].pc = "save_best_w"]
            /\ IF is_main_process(p)
               THEN disk' = [disk EXCEPT
                        !.best = [state |-> "torn", data |-> NoData,
                                  at |-> proc[p].prog],
                        !.writers = @ \cup {<<"best", p>>}]
               ELSE UNCHANGED disk
       ELSE /\ proc' = [proc EXCEPT ![p].pc = "print_eta"]
            /\ UNCHANGED disk
    /\ UNCHANGED <<cfg, args, reduced, written>>

\* line 166: the write completes
save_best_done(p) ==
    /\ proc[p].pc = "save_best_w"
    /\ proc' = [proc EXCEPT ![p].pc = "print_eta",
                            ![p].trace = Did(p, "save_best")]
    /\ IF is_main_process(p)
       THEN disk' = [disk EXCEPT !.best.state = "ok", !.best.data = Checkpoint(p)]
       ELSE UNCHANGED disk
    /\ UNCHANGED <<cfg, args, reduced, written>>

\* lines 168-169, and the loop's next iteration
print_eta(p) ==
    /\ proc[p].pc = "print_eta"
    /\ proc' = [proc EXCEPT ![p].pc = "loop",
                            ![p].epoch = @ + 1,
                            ![p].trace = Did(p, "eta")]
    /\ UNCHANGED <<cfg, args, disk, reduced, written>>

\* ----------------------------------------------------------------- the runs
Running == \E p \in Procs : proc[p].pc \notin Terminal

\* Any exception, or a kill, is fatal to the whole run, at any point; the
\* killed processes' memory is gone.
Abort ==
    /\ Running
    /\ proc' = [p \in Ranks |-> IF proc[p].pc \in Terminal THEN proc[p]
                                ELSE [InitProc(TRUE) EXCEPT !.pc = "aborted"]]
    /\ UNCHANGED <<cfg, args, disk, reduced, written>>

\* The operator starts the next run of the chain on the same command line,
\* fresh or with --resume latest, with or without --amp.
StartRun ==
    /\ ~Running
    /\ args.no < MaxRuns
    /\ \E r \in {"none", "latest"}, a \in BOOLEAN :
         args' = [no |-> args.no + 1, resume |-> r, amp |-> a]
    /\ proc' = [p \in Ranks |-> InitProc(p < cfg.world)]
    /\ reduced' = [run |-> 0, epoch |-> -1, acc |-> -1]
    /\ UNCHANGED <<cfg, disk, written>>

Step(p) ==
    \/ set_optimizer(p)
    \/ set_lr_scheduler(p)
    \/ makedirs(p)
    \/ resume(p)
    \/ open_writer(p)
    \/ loop_head(p)
    \/ set_epoch(p)
    \/ train_one_epoch(p)
    \/ train_forward(p)
    \/ train_backward_step(p)
    \/ train_reset_net(p)
    \/ train_end(p)
    \/ train_return(p)
    \/ tb_train(p)
    \/ lr_scheduler_step(p)
    \/ evaluate(p)
    \/ eval_forward(p)
    \/ eval_reset_net(p)
    \/ eval_end(p)
    \/ eval_return(p)
    \/ tb_test(p)
    \/ update_max_test_acc1(p)
    \/ save_latest(p)
    \/ save_latest_done(p)
    \/ save_best(p)
    \/ save_best_done(p)
    \/ print_eta(p)

\* Ranks beyond the world size are "off" and take no step.
Run == \E p \in Ranks : Step(p)

Next == Run \/ Abort \/ StartRun

DefaultNames(c) ==
    c.opt = s_sgd /\ c.lr_scheduler = s_cosa /\ c.lr_warmup_method = s_linear

\* Chains of single-process runs: the default names with every epochs and
\* lr_warmup_epochs, and every combination of names on one-epoch runs.
ChainConfigs ==
    {c \in Configs : /\ c.world = 1
                     /\ \/ DefaultNames(c)
                        \/ c.epochs = 1 /\ c.lr_warmup_epochs <= 1}

Init == InitWith(ChainConfigs)

Spec == Init /\ [][Next]_vars

\* Chains of runs of up to MaxWorld processes, on the default names.
DistConfigs ==
    {c \in Configs : DefaultNames(c) /\ c.epochs <= 2 /\ c.lr_warmup_epochs = 1}

InitDist == InitWith(DistConfigs)

SpecDist == InitDist /\ [][Next]_vars

\* One uninterrupted single-process run on every schedule configuration.
ScheduleConfigs == {c \in Configs : c.world = 1 /\ c.opt = s_sgd}

InitSchedule == InitWith(ScheduleConfigs)

SpecSchedule == InitSchedule /\ [][Run]_vars

\* ------------------------------------------------------------------ claims
Coordinator == CHOOSE p \in Ranks : is_main_process(p)
Files == {disk.latest, disk.best}
SetupPcs == {"set_optimizer", "set_lr_scheduler", "makedirs", "resume"}

\* C1: over a chain of runs, the first run fresh and the later ones resumed
\* from checkpoint_latest.pth after an abort at any point, a resumed run
\* starts at the restored epoch plus one, the epochs written to
\* checkpoint_latest.pth are 0, 1, 2, ... in steps of exactly one, and a run
\* that ends normally leaves all of 0..epochs-1 written.
C1_ResumeNeverRepeatsOrSkips ==
    /\ \A i \in 1..Len(written) : written[i].epoch = i - 1
    /\ Len(written) <= cfg.epochs
    /\ \A p \in Procs :
         /\ (args.resume = "latest" /\ proc[p].pc = "open_writer")
              => /\ Complete(disk.latest)
                 /\ proc[p].epoch = disk.latest.data.epoch + 1
                 /\ proc[p].epoch = Len(written)
         /\ (is_main_process(p) /\ proc[p].pc = "done")
              => Len(written) = cfg.epochs

C1_Witness ==
    /\ args.no = 2 /\ args.resume = "latest"
    /\ proc[Coordinator].pc = "done"
    /\ Len(written) = 3
    /\ written[1].run = 1 /\ written[2].run = 2 /\ written[3].run = 2

C3_BestOnlyOnStrictImprovement ==
    LET c == proc[Coordinator]
    IN  /\ c.pc \in {"save_latest", "save_latest_w", "save_best", "save_best_w",
                     "print_eta"}
             => /\ (c.max_test_acc1 # c.prev_max) <=> (c.test_acc1 > c.prev_max)
                /\ c.max_test_acc1 >= c.prev_max
                /\ c.max_test_acc1 >= c.test_acc1
                /\ c.save_max_test_acc1 <=> (c.max_test_acc1 # c.prev_max)
        /\ c.pc = "print_eta"
             => (\E i \in 1..Len(c.trace) : c.trace[i] = "save_best")
                  <=> (c.max_test_acc1 # c.prev_max)
        /\ (c.pc \notin (SetupPcs \cup Terminal) /\ Complete(disk.latest))
             => c.max_test_acc1 >= disk.latest.data.max_test_acc1

C3_Witness ==
    LET c == proc[Coordinator]
    IN  /\ c.pc = "print_eta"
        /\ c.epoch = 1
        /\ c.test_acc1 = 1 /\ c.prev_max = 1 /\ c.max_test_acc1 = 1
        /\ disk.best.data.epoch = 0
        /\ disk.latest.data.epoch = 1

BaseKeys == {"model", "optimizer", "lr_scheduler", "epoch", "max_test_acc1"}
LoadErrors == {"FileNotFoundError", "UnpicklingError", "KeyError"}

\* C4 as stated: every checkpoint_latest.pth holds the full tuple, the
\* scaler state included, with or without --amp.
C4_Original ==
    Complete(disk.latest) => (BaseKeys \cup {"scaler"}) \subseteq DOMAIN disk.latest.data

\* C4, amended: once an epoch's checkpoint is persisted checkpoint_latest.pth
\* is complete for that epoch; every complete checkpoint holds model,
\* optimizer, scheduler, epoch and max_test_acc1, and the scaler state
\* exactly when the writing run used --amp; a resume from a complete
\* checkpoint restores every component it reads, and fails to load only
\* with a KeyError when it uses --amp on a checkpoint written without it.
C4_CheckpointTuple ==
    LET c == proc[Coordinator]
        ck == disk.latest.data
    IN  /\ \A f \in Files :
             Complete(f) => /\ BaseKeys \subseteq DOMAIN f.data
                            /\ ("scaler" \in DOMAIN f.data) <=> f.data.args.amp
        /\ c.pc \in {"save_best", "save_best_w", "print_eta"}
             => Complete(disk.latest) /\ ck.epoch = c.epoch
        /\ (c.pc = "failed" /\ c.err = "KeyError")
             => args.amp /\ Complete(disk.latest) /\ ~ck.args.amp
        /\ (c.pc = "failed" /\ args.resume = "latest" /\ Complete(disk.latest)
              /\ (args.amp => ck.args.amp))
             => c.err \notin LoadErrors
        /\ (c.pc = "open_writer" /\ args.resume = "latest")
             => /\ c.model = ck.model
                /\ c.lr = ck.optimizer.lr
                /\ c.lr_scheduler = ck.lr_scheduler
                /\ c.max_test_acc1 = ck.max_test_acc1
                /\ c.start_epoch = ck.epoch + 1
                /\ args.amp => c.scaler = {ck.scaler}

C4_Witness ==
    /\ args.no = 2 /\ args.resume = "latest" /\ args.amp
    /\ proc[Coordinator].pc = "open_writer"
    /\ proc[Coordinator].scaler = {2 * NumBatches}
    /\ disk.latest.data.epoch = 1

InLoop(p) == proc[p].pc \notin (SetupPcs \cup Terminal)
Abs(n) == IF n < 0 THEN -n ELSE n

IsPrefix(s, u) == Len(s) <= Len(u) /\ \A i \in 1..Len(s) : s[i] = u[i]

\* The steps of one epoch on process p, in the order of lines 131-169.
EpochSteps(p, best) ==
    (IF distributed THEN <<"set_epoch">> ELSE <<>>)
      \o <<"train">>
      \o (IF p = Coordinator THEN <<"log_train">> ELSE <<>>)
      \o <<"lr_step", "evaluate">>
      \o (IF p = Coordinator THEN <<"log_test", "update_max", "save_latest">> ELSE <<>>)
      \o (IF p = Coordinator /\ best THEN <<"save_best">> ELSE <<>>)
      \o <<"eta">>

\* The order the claim gives, scalars logged after the checkpoint is persisted.
ClaimedSteps ==
    (IF distributed THEN <<"set_epoch">> ELSE <<>>)
      \o <<"train", "lr_step", "evaluate", "update_max", "persist", "log", "eta">>

Abstract(step) ==
    CASE step \in {"log_train", "log_test"} -> "log"
      [] step \in {"save_latest", "save_best"} -> "persist"
      [] OTHER -> step

RECURSIVE Collapse(_)
Collapse(s) ==
    IF Len(s) <= 1 THEN s
    ELSE IF Abstract(s[1]) = Abstract(s[2]) THEN Collapse(Tail(s))
    ELSE <<s[1]>> \o Collapse(Tail(s))

ClaimView(s) == LET c == Collapse(s) IN [i \in 1..Len(c) |-> Abstract(c[i])]

EpochEnded(p) == proc[p].pc = "loop" /\ proc[p].epoch > proc[p].start_epoch

\* C6 as stated: the coordinating process's steps of an epoch are, in order,
\* sampler epoch, training pass, schedule step, evaluation pass,
\* best-accuracy update, checkpoint, scalar logging, ETA.
C6_Original ==
    EpochEnded(Coordinator) => ClaimView(proc[Coordinator].trace) = ClaimedSteps

\* C6, amended: within every epoch each process performs, exactly once each
\* and in this order: the sampler's set_epoch (distributed runs only), one
\* training pass, the train scalars (coordinator), one schedule step, one
\* evaluation pass, the test scalars (coordinator), the best-accuracy update
\* and checkpoint_latest.pth (coordinator), checkpoint_max_test_acc1.pth
\* (coordinator, when improved), the ETA; a run that ends normally has done
\* so for every epoch from start_epoch to epochs-1.
C6_EpochStepOrder ==
    \A p \in Procs :
      /\ InLoop(p)
           => \E best \in BOOLEAN : IsPrefix(proc[p].trace, EpochSteps(p, best))
      /\ EpochEnded(p)
           => proc[p].trace
                = EpochSteps(p, proc[p].max_test_acc1 # proc[p].prev_max)
      /\ proc[p].pc = "done"
           => \A k \in DOMAIN NoProg :
                proc[p].prog[k] = Max(cfg.epochs, proc[p].start_epoch)

C6_Witness ==
    /\ cfg.world = 2
    /\ \A p \in Procs : EpochEnded(p) /\ proc[p].epoch = 2
    /\ Len(proc[Coordinator].trace) = 10
    /\ Len(proc[1].trace) = 5

\* C7: no forward pass, of the training or of the evaluation pass, runs on a
\* model that still holds the temporal state of an earlier forward pass; the
\* model holds state only between a forward pass and the reset that follows
\* it; and in training the reset comes after the batch's optimizer step.
C7_StateResetBetweenBatches ==
    \A p \in Procs :
      /\ ~proc[p].leaked
      /\ ~proc[p].unstepped_reset
      /\ proc[p].state
           => proc[p].pc \in {"backward", "reset_net", "eval_reset_net",
                              "failed"}

\* The first training batch of epoch 1 has run its forward pass, after the
\* last evaluation batch of epoch 0.
C7_Witness ==
    /\ proc[Coordinator].pc = "backward"
    /\ proc[Coordinator].epoch = 1 /\ proc[Coordinator].batch = 0
    /\ proc[Coordinator].state
    /\ proc[Coordinator].prog.eval_done = 1

Unsupported ==
    \/ lower(cfg.opt) \notin {s_sgd, s_adamw}
    \/ lower(cfg.lr_scheduler) \notin {s_step, s_cosa, s_exp}

\* C8: with an optimizer name other than sgd/adamw or a scheduler name other
\* than step/cosa/exp (compared in lower case) no process gets past setup,
\* the only failure is a NotImplementedError, no epoch is executed, and the
\* run directory (pt/, tb/), args.txt, the TensorBoard log and the
\* checkpoint files are never created or written.
C8_UnsupportedNamesFailAtSetup ==
    Unsupported
      => /\ \A p \in Procs :
              /\ proc[p].pc \in {"set_optimizer", "set_lr_scheduler", "failed",
                                 "aborted"}
              /\ proc[p].pc = "failed" => proc[p].err = "NotImplementedError"
              /\ proc[p].prog = NoProg
              /\ proc[p].model = 0
         /\ ~disk.dirs
         /\ disk.args_txt = 0
         /\ disk.latest = NoFile /\ disk.best = NoFile
         /\ disk.tb = {} /\ disk.writers = {}
         /\ written = <<>>

\* The second run of a chain: "SGD" was accepted and "poly" refused.
C8_Witness ==
    /\ cfg.opt = s_SGD /\ cfg.lr_scheduler = s_poly
    /\ args.no = 2
    /\ proc[Coordinator].pc = "failed"
    /\ proc[Coordinator].err = "NotImplementedError"
    /\ disk.output_dir

TrainPcs == {"train", "backward", "reset_net", "train_sync"}
LinearCosine == cfg.lr_warmup_method = s_linear /\ lower(cfg.lr_scheduler) = s_cosa

\* The warmup schedule governs the training passes of epochs 0..N-1 and the
\* primary schedule, counting from 0 at epoch N, those of epochs N..epochs-1.
Governance(p) ==
    LET s == proc[p].lr_scheduler
        n == cfg.lr_warmup_epochs
        e == proc[p].epoch
    IN  (n > 0 /\ proc[p].pc \in TrainPcs)
          => /\ s.seq /\ s.last_epoch = e
             /\ e < n => /\ s.warm = e /\ s.main = 0
                         /\ proc[p].lr = warmup_lr_scheduler(e)
             /\ e >= n => /\ s.main = e - n
                          /\ proc[p].lr = main_lr_scheduler(e - n)

\* C9 as stated: for every lr_warmup_epochs > 0 the warmup governs the first
\* N epochs and the primary schedule the rest, and with linear warmup and
\* cosine annealing the rate has decayed to zero when the run has finished.
C9_Original ==
    \A p \in Procs :
      /\ Governance(p)
      /\ (cfg.lr_warmup_epochs > 0 /\ LinearCosine /\ proc[p].pc = "done")
           => proc[p].lr = 0

\* C9, amended: for every lr_warmup_epochs = N > 0 the warmup governs the
\* training passes of epochs 0..N-1 and the primary schedule, counting from
\* 0 at epoch N, those of epochs N..epochs-1; with linear warmup, cosine
\* annealing and 0 < N < epochs the rate is lr * decay in epoch 0, grows
\* linearly over the warmup epochs, is lr in epoch N, falls along the cosine
\* curve over epochs N..epochs-1, where it is still positive, and is zero
\* after the schedule step of the final epoch.
C9_WarmupThenPrimary ==
    \A p \in Procs :
      LET n == cfg.lr_warmup_epochs
          e == proc[p].epoch
          T == cfg.epochs - n
          lr == proc[p].lr
      IN  /\ Governance(p)
          /\ (LinearCosine /\ 0 < n /\ n < cfg.epochs)
               => /\ (proc[p].pc \in TrainPcs /\ e < n)
                       => /\ lr = (BaseLr * (WarmupDecay
                                     + ((1000 - WarmupDecay) * e) \div n)) \div 1000
                          /\ lr < BaseLr
                          /\ e = 0 => lr = (BaseLr * WarmupDecay) \div 1000
                  /\ (proc[p].pc \in TrainPcs /\ e = n) => lr = BaseLr
                  /\ (proc[p].pc \in TrainPcs /\ e > n)
                       => /\ lr = (BaseLr * CosFactor(e - n, T)) \div 1000
                          /\ lr < (BaseLr * CosFactor(e - n - 1, T)) \div 1000
                          /\ lr > 0
                  /\ proc[p].pc = "done" => lr = 0

C9_Witness ==
    /\ LinearCosine
    /\ cfg.epochs = 3 /\ cfg.lr_warmup_epochs = 1
    /\ proc[Coordinator].pc = "done"
    /\ proc[Coordinator].lr = 0
    /\ proc[Coordinator].lr_scheduler.main = 2

RECURSIVE MaxAcc(_)
MaxAcc(h) == IF h = <<>> THEN -1 ELSE Max(Head(h).acc, MaxAcc(Tail(h)))

\* The earliest epoch of history h whose accuracy is the maximum.
FirstBest(h) ==
    LET i == CHOOSE j \in 1..Len(h) :
               /\ h[j].acc = MaxAcc(h)
               /\ \A k \in 1..(j - 1) : h[k].acc < MaxAcc(h)
    IN  h[i].epoch

\* C10: whenever the coordinating process is between two epochs, or has
\* finished, with at least one epoch completed, checkpoint_max_test_acc1.pth
\* exists, records the same max_test_acc1 as checkpoint_latest.pth, that
\* value is the maximum test_acc1 of the epochs completed so far, and its
\* epoch is the earliest one that achieved it.
C10_BestFileTracksMaximum ==
    LET c == proc[Coordinator]
    IN  (c.pc \in {"loop", "done"} /\ c.epoch > 0)
          => /\ Complete(disk.latest) /\ Complete(disk.best)
             /\ disk.best.data.max_test_acc1 = disk.latest.data.max_test_acc1
             /\ disk.best.data.max_test_acc1 = MaxAcc(written)
             /\ disk.best.data.epoch = FirstBest(written)

====
